---- MODULE Spec2Model ----
(***************************************************************************)
(* Model of the personal finance dashboard in src/app.py: a single SQLite  *)
(* table of transactions, an "Add Transaction" form that appends to it,    *)
(* and nine read-only pages that re-query the table and recompute their    *)
(* aggregates on every render.                                             *)
(*                                                                         *)
(* Amounts are counted in hundredths of a rupee (the form's step), dates   *)
(* are proleptic Gregorian ordinals as in Python's date.toordinal(), and   *)
(* text is a sequence of one-character strings.                            *)
(***************************************************************************)
EXTENDS Integers, Sequences, FiniteSets, TLC

VARIABLES
    ledger,             \* rows of the transactions table, in insertion order
    clock,              \* datetime.now().timestamp(), strictly increasing
    today,              \* date.today()
    CALENDAR_AVAILABLE, \* whether `from streamlit_calendar import calendar` succeeded
    page,               \* st.session_state.page
    view                \* what the last render of the page computed

vars == <<ledger, clock, today, CALENDAR_AVAILABLE, page, view>>

----------------------------------------------------------------------------
(* Bounds of the model *)

MaxLedger == 2          \* rows the table may hold in Spec
MaxLedgerAgg == 2       \* rows the table may hold in SpecAgg
MaxLedgerHist == 2      \* rows the table may hold in SpecHist
MaxLedgerSort == 3      \* rows the table may hold in SpecSort
MaxLedgerOrder == 2     \* rows the table may hold in SpecOrder

----------------------------------------------------------------------------
(* datetime.date arithmetic *)

Years == 2022..2025

IsLeap(y) == (y % 4 = 0) /\ ((y % 100 # 0) \/ (y % 400 = 0))

DaysInMonth(y, m) ==
    IF m = 2 THEN (IF IsLeap(y) THEN 29 ELSE 28)
    ELSE IF m \in {4, 6, 9, 11} THEN 30 ELSE 31

DaysBeforeYear(y) ==
    (y - 1) * 365 + ((y - 1) \div 4) - ((y - 1) \div 100) + ((y - 1) \div 400)

RECURSIVE DaysBeforeMonth(_, _)
DaysBeforeMonth(y, m) ==
    IF m = 1 THEN 0 ELSE DaysBeforeMonth(y, m - 1) + DaysInMonth(y, m - 1)

\* date(y, m, d) as an ordinal
Date(y, m, d) == DaysBeforeYear(y) + DaysBeforeMonth(y, m) + d

YearOf(n) == CHOOSE y \in Years : DaysBeforeYear(y) < n /\ n <= DaysBeforeYear(y + 1)

MonthOf(n) ==
    LET y == YearOf(n)
    IN  CHOOSE m \in 1..12 :
            /\ Date(y, m, 1) <= n
            /\ n <= Date(y, m, DaysInMonth(y, m))

DayOf(n) == n - Date(YearOf(n), MonthOf(n), 1) + 1

\* date.weekday(): Monday is 0
weekday(n) == (n + 6) % 7

\* date.replace(day=d)
replace_day(n, d) == Date(YearOf(n), MonthOf(n), d)

\* calendar.monthrange(year, month)[1] of the standard library
monthrange_days(y, m) == DaysInMonth(y, m)

\* date.isoformat(): the text "YYYY-MM-DD", kept as its three fields
isoformat(n) == <<YearOf(n), MonthOf(n), DayOf(n)>>

\* pd.to_datetime(...) of an ISO date text, then .dt.date
to_datetime(iso) == Date(iso[1], iso[2], iso[3])

----------------------------------------------------------------------------
(* Text *)

lower(c) == IF c = "A" THEN "a" ELSE IF c = "B" THEN "b" ELSE c

\* re.compile(pat, re.IGNORECASE) fails on an unterminated group
regex_error(pat) == \E i \in 1..Len(pat) : pat[i] = "("

\* one pattern character against one text character under re.IGNORECASE
regex_char(p, c) == (p = ".") \/ (lower(p) = lower(c))

\* regex.search(text) for a pattern of literals and '.'
regex_search(pat, text) ==
    \E k \in 0..(Len(text) - Len(pat)) :
        \A i \in 1..Len(pat) : regex_char(pat[i], text[k + i])

----------------------------------------------------------------------------
(* Sequences and frames *)

RECURSIVE SumAmount(_)
SumAmount(rows) ==
    IF rows = <<>> THEN 0 ELSE Head(rows).amount + SumAmount(Tail(rows))

OfType(rows, t) == SelectSeq(rows, LAMBDA r : r.type = t)

\* variant: the upper bound taken as exclusive
Between_exclusive(rows, lo, hi) == SelectSeq(rows, LAMBDA r : r.date >= lo /\ r.date < hi)

Between(rows, lo, hi) == SelectSeq(rows, LAMBDA r : r.date >= lo /\ r.date <= hi)

RECURSIVE SortedKeys(_)
\* the group keys of a groupby, ascending
SortedKeys(S) ==
    IF S = {} THEN <<>>
    ELSE LET lo == CHOOSE x \in S : \A z \in S : x <= z
         IN  <<lo>> \o SortedKeys(S \ {lo})

DateKeys(rows) == {rows[i].date : i \in 1..Len(rows)}

CategoryKeys(rows) == {rows[i].category : i \in 1..Len(rows)}

\* pd.date_range(lo, hi).date
date_range(lo, hi) == [i \in 1..(hi - lo + 1) |-> lo + i - 1]

----------------------------------------------------------------------------
(* The table *)

CATEGORIES ==
    <<"Food", "Travel", "Bills", "Entertainment", "Shopping", "Savings", "Health", "Other">>

CategorySet == {CATEGORIES[i] : i \in 1..Len(CATEGORIES)}

\* st.number_input("Amount", min_value=0.01): 0.01 in hundredths
MIN_AMOUNT == 1

\* variant: a number_input without min_value
number_input_unbounded(a) == TRUE

\* the value a number_input with that minimum can hold
number_input(a) == a >= MIN_AMOUNT

\* variant: the statement overwrites the newest row instead of inserting
add_transaction_replace(type_, amount, reason, category, where_from, date_, time_) ==
    LET row == [id |-> Len(ledger) + 1, type |-> type_, amount |-> amount,
                reason |-> reason, category |-> category, where_from |-> where_from,
                date |-> isoformat(date_), time |-> time_, timestamp |-> clock]
    IN  IF ledger = <<>> THEN <<row>>
        ELSE [ledger EXCEPT ![Len(ledger)] = [row EXCEPT !.id = Len(ledger)]]

\* INSERT INTO transactions ...; the row it appends
add_transaction(type_, amount, reason, category, where_from, date_, time_) ==
    Append(ledger,
           [id |-> Len(ledger) + 1, type |-> type_, amount |-> amount,
            reason |-> reason, category |-> category, where_from |-> where_from,
            date |-> isoformat(date_), time |-> time_, timestamp |-> clock])

RECURSIVE OrderByTimestampDesc(_)
OrderByTimestampDesc(S) ==
    IF S = {} THEN <<>>
    ELSE LET hi == CHOOSE r \in S : \A z \in S : z.timestamp <= r.timestamp
         IN  <<hi>> \o OrderByTimestampDesc(S \ {hi})

\* SELECT * FROM transactions ORDER BY timestamp DESC, with the date parsed
get_transactions ==
    LET rows == OrderByTimestampDesc({ledger[i] : i \in 1..Len(ledger)})
    IN  [i \in 1..Len(rows) |-> [rows[i] EXCEPT !.date = to_datetime(rows[i].date)]]

\* variant: the expense added instead of subtracted
calculate_cashflow_sum(group) ==
    LET income == IF group # <<>> THEN SumAmount(OfType(group, "Income")) ELSE 0
        expense == IF group # <<>> THEN SumAmount(OfType(group, "Expense")) ELSE 0
    IN  income + expense

\* income - expense of one group
calculate_cashflow(group) ==
    LET income == IF group # <<>> THEN SumAmount(OfType(group, "Income")) ELSE 0
        expense == IF group # <<>> THEN SumAmount(OfType(group, "Expense")) ELSE 0
    IN  income - expense

\* frame.groupby(frame['date'].dt.date).apply(calculate_cashflow): one entry
\* per date present in the frame, keys ascending
groupby_date_cashflow(frame) ==
    LET keys == SortedKeys(DateKeys(frame))
    IN  [i \in 1..Len(keys) |->
            [date |-> keys[i],
             amount |-> calculate_cashflow(SelectSeq(frame, LAMBDA r : r.date = keys[i]))]]

\* series.reindex(index, fill_value=0)
reindex(series, index) ==
    [i \in 1..Len(index) |->
        IF \E j \in 1..Len(series) : series[j].date = index[i]
        THEN series[CHOOSE j \in 1..Len(series) : series[j].date = index[i]]
        ELSE [date |-> index[i], amount |-> 0]]

\* variant: a categorical column, which groupby fills with every category
groupby_category_sum_filled(frame) ==
    [c \in CategorySet |-> SumAmount(SelectSeq(frame, LAMBDA r : r.category = c))]

\* expenses.groupby('category')['amount'].sum(): only categories present
groupby_category_sum(frame) ==
    [c \in CategoryKeys(frame) |->
        SumAmount(SelectSeq(frame, LAMBDA r : r.category = c))]

----------------------------------------------------------------------------
(* Pages: what each render computes from the table *)

\* Home page
HomeBody(df) ==
    IF df = <<>> THEN [info |-> "No transactions yet. Add some to see insights!"]
        ELSE
        LET this_month_start == replace_day(today, 1)
            this_month_end ==
                IF MonthOf(today) < 12
                THEN Date(YearOf(today), (MonthOf(today) % 12) + 1, 1) - 1
                ELSE Date(YearOf(today) + 1, 1, 1) - 1
            this_month == Between(df, this_month_start, this_month_end)
            total_income == SumAmount(OfType(this_month, "Income"))
            total_expenses == SumAmount(OfType(this_month, "Expense"))
            last_7_days == SelectSeq(df, LAMBDA r : r.date >= today - 7)
            daily_cashflow ==
                reindex(groupby_date_cashflow(last_7_days), date_range(today - 6, today))
            expenses == OfType(this_month, "Expense")
        IN  [info |-> "",
             this_month |-> this_month,
             total_income |-> total_income,
             total_expenses |-> total_expenses,
             balance |-> total_income - total_expenses,
             daily_cashflow |-> daily_cashflow,
             cat_breakdown |-> IF expenses # <<>> THEN groupby_category_sum(expenses) ELSE <<>>]

\* Home page, rendered from the table as queried
HomeView == HomeBody(get_transactions)

\* Daily Analysis page
DailyView(selected_date) ==
    LET df == get_transactions
    IN  IF df = <<>> THEN [info |-> "No data available."]
        ELSE
        LET day_data == SelectSeq(df, LAMBDA r : r.date = selected_date)
            income == SumAmount(OfType(day_data, "Income"))
            expenses == SumAmount(OfType(day_data, "Expense"))
            exp_day == OfType(day_data, "Expense")
        IN  IF day_data = <<>> THEN [info |-> "No transactions for this day."]
            ELSE [info |-> "",
                  income |-> income,
                  expenses |-> expenses,
                  cashflow |-> income - expenses,
                  cat_sum |-> IF exp_day # <<>> THEN groupby_category_sum(exp_day) ELSE <<>>,
                  display_df |-> day_data]

\* Weekly Analysis page
WeeklyBody(df) ==
    IF df = <<>> THEN [info |-> "No data available."]
        ELSE
        LET start_of_week == today - weekday(today)
            end_of_week == start_of_week + 6
            week_data == Between(df, start_of_week, end_of_week)
            exp_week == OfType(week_data, "Expense")
        IN  IF week_data = <<>> THEN [info |-> "No transactions this week."]
            ELSE [info |-> "",
                  start_of_week |-> start_of_week,
                  end_of_week |-> end_of_week,
                  daily_totals |-> groupby_date_cashflow(week_data),
                  total_week_income |-> SumAmount(OfType(week_data, "Income")),
                  total_week_expenses |-> SumAmount(exp_week),
                  cat_week |-> IF exp_week # <<>> THEN groupby_category_sum(exp_week) ELSE <<>>]

\* Weekly Analysis page, rendered from the table as queried
WeeklyView == WeeklyBody(get_transactions)

\* variant: groupby(sort=False), the date keys in order of first appearance
groupby_date_sum_unsorted(frame) ==
    LET firsts == SelectSeq([i \in 1..Len(frame) |-> i],
                            LAMBDA i : \A j \in 1..(i - 1) : frame[j].date # frame[i].date)
    IN  [k \in 1..Len(firsts) |->
            [key |-> frame[firsts[k]].date,
             amount |-> SumAmount(SelectSeq(frame, LAMBDA r : r.date = frame[firsts[k]].date))]]

\* series.sum() per date key of the expense rows, keys ascending
groupby_date_sum(frame) ==
    LET keys == SortedKeys(DateKeys(frame))
    IN  [i \in 1..Len(keys) |->
            [key |-> keys[i],
             amount |-> SumAmount(SelectSeq(frame, LAMBDA r : r.date = keys[i]))]]

\* series.sum() per category key of the expense rows, keys ascending
groupby_category_series(frame) ==
    LET present == CategoryKeys(frame)
        \* category names in lexicographic order
        alphabetical ==
            <<"Bills", "Entertainment", "Food", "Health", "Other", "Savings", "Shopping", "Travel">>
        keys == SelectSeq(alphabetical, LAMBDA c : c \in present)
    IN  [i \in 1..Len(keys) |->
            [key |-> keys[i],
             amount |-> SumAmount(SelectSeq(frame, LAMBDA r : r.category = keys[i]))]]

\* series.max()
series_max(series) ==
    CHOOSE v \in {series[i].amount : i \in 1..Len(series)} :
        \A i \in 1..Len(series) : series[i].amount <= v

\* variant: the label of the last occurrence of the maximum
idxmax_last(series) ==
    LET last == CHOOSE i \in 1..Len(series) :
                    /\ series[i].amount = series_max(series)
                    /\ \A j \in (i + 1)..Len(series) : series[j].amount # series_max(series)
    IN  series[last].key

\* series.idxmax(): the label of the first occurrence of the maximum
idxmax(series) ==
    LET first == CHOOSE i \in 1..Len(series) :
                    /\ series[i].amount = series_max(series)
                    /\ \A j \in 1..(i - 1) : series[j].amount # series_max(series)
    IN  series[first].key

\* Monthly Analysis page
MonthlyBody(df) ==
    IF df = <<>> THEN [error |-> "", info |-> "No data available."]
        ELSE IF CALENDAR_AVAILABLE
        \* `calendar` is the streamlit_calendar function: it has no monthrange
        THEN [error |-> "AttributeError", info |-> ""]
        ELSE
        LET month_start == replace_day(today, 1)
            last_day == monthrange_days(YearOf(today), MonthOf(today))
            month_end == replace_day(today, last_day)
            month_data == Between(df, month_start, month_end)
            spend_days == groupby_date_sum(OfType(month_data, "Expense"))
            cat_month == groupby_category_series(OfType(month_data, "Expense"))
        IN  IF month_data = <<>> THEN [error |-> "", info |-> "No transactions this month."]
            ELSE [error |-> "",
                  info |-> "",
                  month_data |-> month_data,
                  daily_month |-> groupby_date_cashflow(month_data),
                  total_month_income |-> SumAmount(OfType(month_data, "Income")),
                  total_month_expenses |-> SumAmount(OfType(month_data, "Expense")),
                  highest_day |->
                      IF spend_days # <<>>
                      THEN <<[day |-> idxmax(spend_days), amount |-> series_max(spend_days)]>>
                      ELSE <<>>,
                  most_exp_cat |->
                      IF cat_month # <<>>
                      THEN <<[category |-> idxmax(cat_month), amount |-> series_max(cat_month)]>>
                      ELSE <<>>]

\* Monthly Analysis page, rendered from the table as queried
MonthlyView == MonthlyBody(get_transactions)

\* Income Summary and Expense Summary pages
SummaryView(t) ==
    LET df == get_transactions
        kind_df == OfType(df, t)
    IN  IF kind_df = <<>> THEN [info |-> "No data."]
        ELSE [info |-> "", display_df |-> kind_df, total |-> SumAmount(kind_df)]

\* Category Breakdown page
CategoryBreakdownBody(df) ==
    LET expense_df == OfType(df, "Expense")
    IN  IF expense_df = <<>> THEN [info |-> "No expense data for breakdown."]
        ELSE [info |-> "", cat_sum |-> groupby_category_sum(expense_df)]

\* Category Breakdown page, rendered from the table as queried
CategoryBreakdownView == CategoryBreakdownBody(get_transactions)

\* one calendar event per row
calendar_event(row) ==
    LET net_amount == IF row.type = "Income" THEN row.amount ELSE 0 - row.amount
        \* the threshold -50 in hundredths
        color == IF net_amount > 0 THEN "green"
                 ELSE IF net_amount < 0 - 5000 THEN "red" ELSE "yellow"
    IN  [type |-> row.type, amount |-> row.amount, start |-> row.date, color |-> color]

\* Calendar View page; selected_date is <<>> or <<d>>
CalendarView(selected_date) ==
    LET df == get_transactions
    IN  IF df = <<>> THEN [info |-> "No data for calendar."]
        ELSE IF ~CALENDAR_AVAILABLE
        THEN [info |-> "Calendar component not available. Install via pip."]
        ELSE [info |-> "",
              events |-> [i \in 1..Len(df) |-> calendar_event(df[i])],
              day_data |->
                  IF selected_date # <<>>
                  THEN SelectSeq(df, LAMBDA r : r.date = selected_date[1])
                  ELSE <<>>]

\* frame[frame['reason'].str.contains(search, case=False, na=False)]
str_contains(frame, search) == SelectSeq(frame, LAMBDA r : regex_search(search, r.reason))

\* whether `out` is ordered by column `col` in the direction asked for
Ordered(out, col, ascending) ==
    \A i \in 1..(Len(out) - 1) :
        IF ascending THEN out[i][col] <= out[i + 1][col] ELSE out[i][col] >= out[i + 1][col]

\* frame.sort_values(col, ascending=...) with the default kind='quicksort',
\* which is not a stable sort: rows with equal keys may come out in any order
sort_values(frame, col, ascending) ==
    {out \in {[i \in 1..Len(frame) |-> frame[p[i]]] : p \in Permutations(1..Len(frame))} :
        Ordered(out, col, ascending)}

\* the History page's filters, before the sort; date_input is <<s>> or <<s, e>>
HistoryFilter(search, cat_filter, date_input) ==
    LET df == get_transactions
        by_text == IF search # <<>> THEN str_contains(df, search) ELSE df
        by_cat == IF cat_filter # "All"
                  THEN SelectSeq(by_text, LAMBDA r : r.category = cat_filter)
                  ELSE by_text
    IN  Between(by_cat, date_input[1], date_input[2])

\* the History page's sort: the orders the sort may produce
HistorySort(filtered_df, sort_by) ==
    IF sort_by = "Amount (High to Low)"
    THEN sort_values(filtered_df, "amount", FALSE)
    ELSE IF sort_by = "Amount (Low to High)"
    THEN sort_values(filtered_df, "amount", TRUE)
    ELSE sort_values(filtered_df, "date", FALSE)

\* History page, for one order the sort produced
HistoryView(search, cat_filter, date_input, sort_by, sorted_df) ==
    LET inputs == [search |-> search, cat_filter |-> cat_filter,
                   date_input |-> date_input, sort_by |-> sort_by]
    IN  IF get_transactions = <<>> THEN [info |-> "No transactions yet."]
        ELSE IF search # <<>> /\ regex_error(search)
        THEN [info |-> "", error |-> "re.error", inputs |-> inputs]
        ELSE IF Len(date_input) < 2
        THEN [info |-> "", error |-> "IndexError", inputs |-> inputs]
        ELSE [info |-> "", error |-> "", inputs |-> inputs, filtered_df |-> sorted_df]

----------------------------------------------------------------------------
(* Operations *)

SORT_KEYS == {"Date (Newest)", "Amount (High to Low)", "Amount (Low to High)"}

\* the sidebar selects Home and the page renders
Home ==
    /\ page' = "Home"
    /\ view' = HomeView
    /\ UNCHANGED <<ledger, clock, today, CALENDAR_AVAILABLE>>

\* the sidebar's shortcut button on Home, or the sidebar itself, opens the form
AddTransactionPage ==
    /\ page' = "Add Transaction"
    /\ view' = [form |-> "entry_form"]
    /\ UNCHANGED <<ledger, clock, today, CALENDAR_AVAILABLE>>

\* the form's Save button; max bounds the table
Save(type_, amount, reason, category, where_from, date_, time_, max) ==
    /\ page = "Add Transaction"
    /\ Len(ledger) < max
    /\ type_ \in {"Income", "Expense"}
    /\ number_input(amount)
    /\ category \in CategorySet
    /\ ledger' = add_transaction(type_, amount, reason, category, where_from, date_, time_)
    /\ clock' = clock + 1
    /\ view' = [form |-> "entry_form"]
    /\ UNCHANGED <<today, CALENDAR_AVAILABLE, page>>

Daily(selected_date) ==
    /\ page' = "Daily Analysis"
    /\ view' = DailyView(selected_date)
    /\ UNCHANGED <<ledger, clock, today, CALENDAR_AVAILABLE>>

Weekly ==
    /\ page' = "Weekly Analysis"
    /\ view' = WeeklyView
    /\ UNCHANGED <<ledger, clock, today, CALENDAR_AVAILABLE>>

Monthly ==
    /\ page' = "Monthly Analysis"
    /\ view' = MonthlyView
    /\ UNCHANGED <<ledger, clock, today, CALENDAR_AVAILABLE>>

IncomeSummary ==
    /\ page' = "Income Summary"
    /\ view' = SummaryView("Income")
    /\ UNCHANGED <<ledger, clock, today, CALENDAR_AVAILABLE>>

ExpenseSummary ==
    /\ page' = "Expense Summary"
    /\ view' = SummaryView("Expense")
    /\ UNCHANGED <<ledger, clock, today, CALENDAR_AVAILABLE>>

History(search, cat_filter, date_input, sort_by) ==
    /\ page' = "History"
    /\ cat_filter \in {"All"} \cup CategorySet
    /\ sort_by \in SORT_KEYS
    /\ IF get_transactions # <<>> /\ ~(search # <<>> /\ regex_error(search)) /\ Len(date_input) = 2
       THEN \E sorted_df \in HistorySort(HistoryFilter(search, cat_filter, date_input), sort_by) :
                view' = HistoryView(search, cat_filter, date_input, sort_by, sorted_df)
       ELSE view' = HistoryView(search, cat_filter, date_input, sort_by, <<>>)
    /\ UNCHANGED <<ledger, clock, today, CALENDAR_AVAILABLE>>

CalendarPage(selected_date) ==
    /\ page' = "Calendar View"
    /\ view' = CalendarView(selected_date)
    /\ UNCHANGED <<ledger, clock, today, CALENDAR_AVAILABLE>>

CategoryBreakdown ==
    /\ page' = "Category Breakdown"
    /\ view' = CategoryBreakdownView
    /\ UNCHANGED <<ledger, clock, today, CALENDAR_AVAILABLE>>

----------------------------------------------------------------------------
(* Inputs *)

TYPES == {"Income", "Expense"}

\* the whole application: every page, a few values per widget
AppTodays == {Date(2024, 2, 29)}
AppAmounts == {0 - 1, 1, 2}
AppCategories == {"Food", "Other"}
AppOffsets == {0, 1}

\* the aggregation pages: dates around the week, the 7-day window and the month
AggTodays ==
    {Date(2023, 2, 28), Date(2024, 2, 28), Date(2024, 2, 29), Date(2023, 12, 31), Date(2024, 1, 1)}
AggAmounts == {1, 2}
AggOffsets == {0 - 7, 0 - 1, 0, 1}

\* the History page's filters: texts, categories and dates
HistTodays == {Date(2024, 1, 1)}
HistReasons == {<<>>, <<"A", "b">>}
HistCategories == {"Food", "Travel"}
HistOffsets == {0 - 1, 0}
HistSearches == {<<>>, <<"a", "B">>, <<"b", "a">>, <<".">>, <<"(">>}
HistDateInputs ==
    {<<Date(2023, 12, 31)>>,
     <<Date(2023, 12, 31), Date(2024, 1, 1)>>,
     <<Date(2024, 1, 1), Date(2024, 1, 1)>>,
     <<Date(2024, 1, 1), Date(2023, 12, 31)>>}

\* the History page's sort: amounts and dates that tie
SortAmounts == {1, 2}
SortOffsets == {0 - 1, 0}

\* the aggregates under reordering: days and categories that tie
OrderTodays == {Date(2024, 2, 29)}
OrderAmounts == {1, 2}
OrderCategories == {"Food", "Travel"}
OrderOffsets == {0 - 1, 0}

----------------------------------------------------------------------------
(* Specifications *)

Init ==
    /\ ledger = <<>>
    /\ clock = 1
    /\ today \in AppTodays
    /\ CALENDAR_AVAILABLE \in BOOLEAN
    /\ page = "Home"
    /\ view = [info |-> "No transactions yet. Add some to see insights!"]

Next ==
    \/ Home
    \/ AddTransactionPage
    \/ \E type_ \in TYPES, amount \in AppAmounts, category \in AppCategories, k \in AppOffsets :
           Save(type_, amount, <<>>, category, <<>>, today + k, 0, MaxLedger)
    \/ Daily(today)
    \/ Weekly
    \/ Monthly
    \/ IncomeSummary
    \/ ExpenseSummary
    \/ History(<<>>, "All", <<today, today + 1>>, "Date (Newest)")
    \/ \E sel \in {<<>>, <<today>>} : CalendarPage(sel)
    \/ CategoryBreakdown

Spec == Init /\ [][Next]_vars

InitAgg ==
    /\ ledger = <<>>
    /\ clock = 1
    /\ today \in AggTodays
    /\ CALENDAR_AVAILABLE \in BOOLEAN
    /\ page = "Home"
    /\ view = [info |-> "No transactions yet. Add some to see insights!"]

NextAgg ==
    \/ Home
    \/ AddTransactionPage
    \/ \E type_ \in TYPES, amount \in AggAmounts, k \in AggOffsets :
           Save(type_, amount, <<>>, "Food", <<>>, today + k, 0, MaxLedgerAgg)
    \/ Weekly
    \/ Monthly

SpecAgg == InitAgg /\ [][NextAgg]_vars

InitHist ==
    /\ ledger = <<>>
    /\ clock = 1
    /\ today \in HistTodays
    \* the History page and the form never read CALENDAR_AVAILABLE
    /\ CALENDAR_AVAILABLE = FALSE
    /\ page = "Home"
    /\ view = [info |-> "No transactions yet. Add some to see insights!"]

NextHist ==
    \/ AddTransactionPage
    \/ \E reason \in HistReasons, category \in HistCategories, k \in HistOffsets :
           Save("Expense", 1, reason, category, <<>>, today + k, 0, MaxLedgerHist)
    \/ \E search \in HistSearches, cat_filter \in {"All", "Food"},
          date_input \in HistDateInputs :
           History(search, cat_filter, date_input, "Date (Newest)")

SpecHist == InitHist /\ [][NextHist]_vars

NextSort ==
    \/ AddTransactionPage
    \/ \E amount \in SortAmounts, k \in SortOffsets :
           Save("Expense", amount, <<>>, "Food", <<>>, today + k, 0, MaxLedgerSort)
    \/ \E sort_by \in SORT_KEYS :
           History(<<>>, "All", <<today - 1, today>>, sort_by)

SpecSort == InitHist /\ [][NextSort]_vars

InitOrder ==
    /\ ledger = <<>>
    /\ clock = 1
    /\ today \in OrderTodays
    /\ CALENDAR_AVAILABLE \in BOOLEAN
    /\ page = "Home"
    /\ view = [info |-> "No transactions yet. Add some to see insights!"]

NextOrder ==
    \/ Home
    \/ AddTransactionPage
    \/ \E type_ \in TYPES, amount \in OrderAmounts, category \in OrderCategories,
          k \in OrderOffsets :
           Save(type_, amount, <<>>, category, <<>>, today + k, 0, MaxLedgerOrder)
    \/ Weekly
    \/ Monthly
    \/ CategoryBreakdown

SpecOrder == InitOrder /\ [][NextOrder]_vars

----------------------------------------------------------------------------
(* The table as the properties read it *)

\* the stored date of row i, as an ordinal
StoredDate(i) == to_datetime(ledger[i].date)

RECURSIVE LedgerSum(_, _, _, _)
\* the sum of amounts of the rows 1..n of type t dated in D with category in C
LedgerSum(n, t, D, C) ==
    IF n = 0 THEN 0
    ELSE LedgerSum(n - 1, t, D, C)
         + (IF ledger[n].type = t /\ StoredDate(n) \in D /\ ledger[n].category \in C
            THEN ledger[n].amount ELSE 0)

IncomeOn(d) == LedgerSum(Len(ledger), "Income", {d}, CategorySet)
ExpenseOn(d) == LedgerSum(Len(ledger), "Expense", {d}, CategorySet)

\* the daily series the page on display has built, and its window
HasSeries ==
    \/ page = "Home" /\ view.info = ""
    \/ page = "Weekly Analysis" /\ view.info = ""
    \/ page = "Monthly Analysis" /\ view.error = "" /\ view.info = ""

Series ==
    IF page = "Home" THEN view.daily_cashflow
    ELSE IF page = "Weekly Analysis" THEN view.daily_totals
    ELSE view.daily_month

WindowStart ==
    IF page = "Home" THEN today - 6
    ELSE IF page = "Weekly Analysis" THEN today - weekday(today)
    ELSE Date(YearOf(today), MonthOf(today), 1)

WindowEnd ==
    IF page = "Home" THEN today
    ELSE IF page = "Weekly Analysis" THEN today - weekday(today) + 6
    ELSE Date(YearOf(today), MonthOf(today), DaysInMonth(YearOf(today), MonthOf(today)))

----------------------------------------------------------------------------
(* Properties *)

\* C1: every daily cashflow series (Home, Weekly Analysis, Monthly Analysis)
\* has one entry per calendar day of its window, in ascending order, and a
\* day without transactions appears with net amount 0.
C1_SeriesCoversEveryDay ==
    HasSeries =>
        /\ Len(Series) = (WindowEnd - WindowStart) + 1
        /\ \A i \in 1..Len(Series) : Series[i].date = WindowStart + i - 1
        /\ \A i \in 1..Len(Series) :
               (\A j \in 1..Len(ledger) : StoredDate(j) # Series[i].date) => Series[i].amount = 0

\* C2: the value a daily cashflow series reports for a day is the income of
\* that day minus the expense of that day, over the whole table, and every
\* reported day lies in the series' window.
C2_EntryIsIncomeMinusExpense ==
    HasSeries =>
        \A i \in 1..Len(Series) :
            /\ Series[i].amount = IncomeOn(Series[i].date) - ExpenseOn(Series[i].date)
            /\ WindowStart <= Series[i].date /\ Series[i].date <= WindowEnd

\* the Home series reports a day that has both an income and an expense
C2_Witness ==
    /\ page = "Home" /\ view.info = ""
    /\ \E i \in 1..Len(view.daily_cashflow) :
           /\ IncomeOn(view.daily_cashflow[i].date) > 0
           /\ ExpenseOn(view.daily_cashflow[i].date) > 0
           /\ view.daily_cashflow[i].amount # 0

\* the days of today's month on which the table has an expense
MonthFirst == Date(YearOf(today), MonthOf(today), 1)
MonthLast == Date(YearOf(today), MonthOf(today), DaysInMonth(YearOf(today), MonthOf(today)))
SpendDays ==
    {d \in MonthFirst..MonthLast :
        \E i \in 1..Len(ledger) : ledger[i].type = "Expense" /\ StoredDate(i) = d}

\* C3: the highest spend day of the month is a day of maximal summed expense,
\* the earliest one when several tie, and no day is reported when the month
\* has no expense.
C3_HighestSpendDay ==
    (page = "Monthly Analysis" /\ view.error = "" /\ view.info = "") =>
        IF SpendDays = {} THEN view.highest_day = <<>>
        ELSE /\ Len(view.highest_day) = 1
             /\ LET h == view.highest_day[1]
                IN  /\ h.day \in SpendDays
                    /\ h.amount = ExpenseOn(h.day)
                    /\ \A d \in SpendDays :
                           /\ ExpenseOn(d) <= h.amount
                           /\ (ExpenseOn(d) = h.amount => h.day <= d)

\* two days of the month tie for the maximum and the earlier one is reported
C3_Witness ==
    /\ page = "Monthly Analysis" /\ view.error = "" /\ view.info = ""
    /\ Len(view.highest_day) = 1
    /\ \E d \in SpendDays :
           d > view.highest_day[1].day /\ ExpenseOn(d) = view.highest_day[1].amount

\* the category mapping a page shows, empty when the page draws no chart
Breakdown ==
    IF view.info # "" THEN <<>>
    ELSE IF page = "Home" THEN view.cat_breakdown ELSE view.cat_sum

\* the dates of the rows the mapping is built from
BreakdownDates ==
    IF page = "Home" THEN MonthFirst..MonthLast
    ELSE {StoredDate(i) : i \in 1..Len(ledger)}

RECURSIVE MapSum(_, _)
MapSum(m, S) ==
    IF S = {} THEN 0
    ELSE LET c == CHOOSE x \in S : TRUE IN m[c] + MapSum(m, S \ {c})

\* C4: the category breakdown (Home: this month, Category Breakdown: all
\* time) holds a category exactly when an Expense row in scope has it, and
\* its values add up to the total of the Expense amounts in scope.
C4_CategoryBreakdown ==
    (page \in {"Home", "Category Breakdown"}) =>
        /\ DOMAIN Breakdown =
               {c \in CategorySet :
                   \E i \in 1..Len(ledger) :
                       /\ ledger[i].type = "Expense"
                       /\ ledger[i].category = c
                       /\ StoredDate(i) \in BreakdownDates}
        /\ MapSum(Breakdown, DOMAIN Breakdown)
               = LedgerSum(Len(ledger), "Expense", BreakdownDates, CategorySet)

\* the breakdown is shown while the table has an Income row whose category
\* no Expense row has
C4_Witness ==
    /\ page = "Category Breakdown" /\ view.info = ""
    /\ \E i \in 1..Len(ledger) :
           ledger[i].type = "Income" /\ ledger[i].category \notin DOMAIN view.cat_sum

\* the History page on display with a complete date range
HistoryShown ==
    page = "History" /\ view.info = "" /\ Len(view.inputs.date_input) = 2

RowIds(frame) == {frame[i].id : i \in 1..Len(frame)}

\* C5: the History date-range filter keeps exactly the rows with
\* s <= date <= e, and for s > e it yields no row and does not fail.
C5_DateRangeFilter ==
    HistoryShown =>
        LET s == view.inputs.date_input[1]
            e == view.inputs.date_input[2]
        IN  /\ view.inputs.search = <<>> => view.error = ""
            /\ view.error = "" =>
                /\ \A i \in 1..Len(view.filtered_df) :
                       s <= view.filtered_df[i].date /\ view.filtered_df[i].date <= e
                /\ Cardinality(RowIds(view.filtered_df)) = Len(view.filtered_df)
                /\ (view.inputs.search = <<>> /\ view.inputs.cat_filter = "All") =>
                       RowIds(view.filtered_df) =
                           {ledger[i].id : i \in {j \in 1..Len(ledger) :
                                                     s <= StoredDate(j) /\ StoredDate(j) <= e}}
                /\ s > e => view.filtered_df = <<>>

\* an inverted range on a table that has rows
C5_Witness ==
    /\ HistoryShown /\ view.error = "" /\ ledger # <<>>
    /\ view.inputs.date_input[1] > view.inputs.date_input[2]
    /\ view.filtered_df = <<>>

\* C6: Home and Monthly Analysis both select exactly the rows dated in
\* today's calendar month, whether or not streamlit-calendar was imported.
C6_ThisMonthWindow ==
    LET in_month == {ledger[i].id : i \in {j \in 1..Len(ledger) :
                                             MonthFirst <= StoredDate(j) /\ StoredDate(j) <= MonthLast}}
    IN  /\ (page = "Home" /\ view.info = "") => RowIds(view.this_month) = in_month
        /\ (page = "Monthly Analysis" /\ ledger # <<>>) =>
               /\ view.error = ""
               /\ IF view.info = "" THEN RowIds(view.month_data) = in_month ELSE in_month = {}

\* the column a History sort key orders by, negated for descending
SortKey(r) ==
    IF view.inputs.sort_by = "Amount (Low to High)" THEN r.amount
    ELSE IF view.inputs.sort_by = "Amount (High to Low)" THEN 0 - r.amount
    ELSE 0 - r.date

\* C7: the History output is ordered by the chosen key and is stable: rows
\* with equal keys stay in input order, newest created_at first.
C7_SortStable ==
    (HistoryShown /\ view.error = "") =>
        \A i, j \in 1..Len(view.filtered_df) :
            i < j =>
                /\ SortKey(view.filtered_df[i]) <= SortKey(view.filtered_df[j])
                /\ SortKey(view.filtered_df[i]) = SortKey(view.filtered_df[j]) =>
                       view.filtered_df[i].timestamp > view.filtered_df[j].timestamp

\* query is a case-insensitive literal substring of text
LiteralSubstring(query, text) ==
    \E k \in 0..(Len(text) - Len(query)) :
        \A i \in 1..Len(query) : lower(query[i]) = lower(text[k + i])

\* C8: a row passes the History text filter exactly when the query, as a
\* literal, is a case-insensitive substring of its reason, and the category
\* filter exactly when the filter is "All" or equals its category; no query
\* makes the page fail.
C8_TextAndCategoryFilter ==
    HistoryShown =>
        /\ view.error = ""
        /\ \A i \in 1..Len(ledger) :
               (/\ view.inputs.date_input[1] <= StoredDate(i)
                /\ StoredDate(i) <= view.inputs.date_input[2]) =>
                   (ledger[i].id \in RowIds(view.filtered_df)
                        <=> /\ LiteralSubstring(view.inputs.search, ledger[i].reason)
                            /\ (view.inputs.cat_filter = "All"
                                \/ view.inputs.cat_filter = ledger[i].category))

\* C9: the table only grows, by exactly one row per Save, and a step that
\* shows any page other than the form leaves it unchanged.
C9_AppendOnly ==
    [][/\ Len(ledger') >= Len(ledger)
       /\ SubSeq(ledger', 1, Len(ledger)) = ledger
       /\ Len(ledger') - Len(ledger) = clock' - clock
       /\ Len(ledger') - Len(ledger) \in {0, 1}
       /\ page' # "Add Transaction" => ledger' = ledger]_vars

\* a page is viewed after two rows were saved
C9_Witness ==
    /\ Len(ledger) >= 2
    /\ page \in {"Home", "History", "Monthly Analysis", "Calendar View"}

\* C10: every stored row has amount >= 0, kind Income or Expense, one of the
\* eight categories and a date.
C10_LedgerInvariant ==
    \A i \in 1..Len(ledger) :
        /\ ledger[i].amount >= 0
        /\ ledger[i].type \in {"Income", "Expense"}
        /\ ledger[i].category \in
               {"Food", "Travel", "Bills", "Entertainment", "Shopping", "Savings", "Health", "Other"}
        /\ Len(ledger[i].date) = 3
        /\ ledger[i].date[2] \in 1..12
        /\ ledger[i].date[3] \in 1..DaysInMonth(ledger[i].date[1], ledger[i].date[2])

\* two rows were saved through the form
C10_Witness == Len(ledger) >= 2

\* every order the rows of the queried table can be put in
Reorderings ==
    LET df == get_transactions
    IN  {[i \in 1..Len(df) |-> df[p[i]]] : p \in Permutations(1..Len(df))}

\* v and w agree on the fields they both have among `fields`, and have the same ones
SameOn(v, w, fields) ==
    /\ DOMAIN v \cap fields = DOMAIN w \cap fields
    /\ \A f \in DOMAIN v \cap fields : v[f] = w[f]

====
